---- MODULE Spec2Model ----
(***************************************************************************)
(* A model of src/versions.ts: the version catalog (BaseVersions and      *)
(* ElectronVersions with its TTL-gated background refresh) and the        *)
(* bisection engine Runner.bisect, which drives Runner.run once per step. *)
(***************************************************************************)
EXTENDS Integers, Sequences, FiniteSets, TLC

\* ---------------------------------------------------------------- bounds

\* largest number of releases a catalog of the bisection specification holds
MaxVersions == 8

\* how many times the clock advances in the catalog specification
MaxTicks == 2

\* how many calls of ElectronVersions.fetch the catalog specification follows
MaxFetches == 2

\* how many calls of fiddleFactory.create callers other than bisect make
MaxDirect == 1

\* how many times the cache goes stale, and how many refreshes are started, in
\* the bisection specification
MaxRefreshes == 1

\* ------------------------------------------------------------- variables

VARIABLES
    \* BaseVersions.map: the values of the Map in insertion order
    map,
    mtimeMs,       \* ElectronVersions.mtimeMs
    now,           \* the clock Date.now() reads, in milliseconds
    fetches,       \* the calls of ElectronVersions.fetch in flight, oldest first
    settled,       \* the call of ElectronVersions.fetch that has just returned
    nfetch,        \* how many calls of ElectronVersions.fetch were made so far
    lastRead,      \* the accessor call that has just returned, and its value
    probe,         \* the call of create, inRange or compareVersions observed
    \* Runner.bisect: position of the call
    \*   "idle"    not called yet
    \*   "create"  awaiting this.fiddleFactory.create(fiddleIn)   (line 581)
    \*   "loop"    at the loop test                                (line 604)
    \*   "spawn"   inside this.run, awaiting this.spawn           (line 551)
    \*   "child"   inside this.run, awaiting the child's events   (line 553)
    \*   "resolved" run is fulfilled; bisect has not resumed yet  (line 610)
    \*   "rejected" run is rejected; bisect has not resumed yet   (line 610)
    \*   "finish"  past the loop, before the success test          (line 625)
    \*   "done"    the promise bisect returned is settled
    pc,
    versions,      \* const versions = this.versions.inRange(a, b)
    left,          \* let left
    right,         \* let right
    result,        \* let result: TestResult | undefined
    testOrder,     \* const testOrder
    results,       \* const results = new Array(versions.length)
    mid,           \* const mid of the current iteration
    bisectResult,  \* how the promise returned by bisect settled
    \* the arguments of the calls of fiddleFactory.create that the call of
    \* bisect made: "source" itself (line 581), "fiddle" through run (line 461)
    creates,
    runs,          \* the calls of Runner.run the call of bisect made, oldest first
    \* the calls of fiddleFactory.create other callers made (created), and how
    \* many of their calls of spawn still await it (awaiting)
    direct

bisectVars == <<pc, versions, left, right, result, testOrder, results, mid,
                bisectResult, creates, runs, direct>>

catalogVars == <<map, mtimeMs, now, fetches, settled, nfetch, lastRead, probe>>

vars == <<map, mtimeMs, now, fetches, settled, nfetch, lastRead, probe,
          pc, versions, left, right, result, testOrder, results, mid,
          bisectResult, creates, runs, direct>>

\* ------------------------------------------------------- JavaScript helpers

\* the value JavaScript gives for a missing array element or an unset variable
undefined == "undefined"

Min(a, b) == IF a < b THEN a ELSE b

Max(a, b) == IF a > b THEN a ELSE b

\* arr[i] for a 0-based index; undefined outside the array
At(arr, i) == IF i >= 0 /\ i < Len(arr) THEN arr[i + 1] ELSE undefined

\* Array.prototype.findIndex((ver) => ver.version === a): first 0-based index,
\* or -1
findIndex(arr, a) ==
    IF \E i \in 1..Len(arr) : arr[i] = a
    THEN (CHOOSE i \in 1..Len(arr) :
              arr[i] = a /\ \A j \in 1..(i - 1) : arr[j] # a) - 1
    ELSE -1

\* Array.prototype.slice(start, end): a negative index counts from the end
slice(arr, start, end) ==
    LET n  == Len(arr)
        s  == IF start < 0 THEN Max(n + start, 0) ELSE Min(start, n)
        e  == IF end < 0 THEN Max(n + end, 0) ELSE Min(end, n)
    IN  IF s < e THEN SubSeq(arr, s + 1, e) ELSE <<>>

\* Math.round(twice / 2) for an integer twice: halves round towards +infinity
MathRoundHalf(twice) == (twice + 1) \div 2

\* --------------------------------------------------------------- versions

\* A parsed SemVer: the triple and the prerelease identifiers.  Two SemVers
\* have the same canonical string (.version) iff the records are equal.
SemVer(major, minor, patch, pre) ==
    [major |-> major, minor |-> minor, patch |-> patch, prerelease |-> pre]

\* the catalog of n stable releases 1.0.0 .. n.0.0, in branch order
StableCatalog(n) == [i \in 1..n |-> SemVer(i, 0, 0, <<>>)]

\* a version no catalog of the bisection specification knows
UnknownVersion == SemVer(0, 0, 0, <<>>)

\* a range that takes a for the earlier and b for the later version
inRangeNoSwap(m, a, b) == slice(m, findIndex(m, a), findIndex(m, b) + 1)

\* BaseVersions.inRange
inRange(m, a, b) ==
    LET first == findIndex(m, a)
        last  == findIndex(m, b)
        lo    == IF first > last THEN last ELSE first
        hi    == IF first > last THEN first ELSE last
    IN  slice(m, lo, hi + 1)


\* ---------------------------------------------------------- compareVersions

\* a prerelease identifier: semver keeps numeric ones as numbers, the others
\* as strings
Num(n) == [isNum |-> TRUE, n |-> n, s |-> ""]

Str(s) == [isNum |-> FALSE, n |-> 0, s |-> s]

\* the strings the model uses as identifiers, by their rank in JavaScript's
\* string order ("alpha" < "beta" < "nightly")
StrRank(s) ==
    CASE s = "alpha" -> 1
      [] s = "beta" -> 2
      [] s = "nightly" -> 3
      [] OTHER -> 0

sign(a, b) == IF a < b THEN -1 ELSE IF a > b THEN 1 ELSE 0

\* semver's compareIdentifiers: numbers numerically, a number before a string,
\* strings in string order
compareIdentifiers(a, b) ==
    IF a.isNum /\ b.isNum THEN sign(a.n, b.n)
    ELSE IF a.isNum THEN -1
    ELSE IF b.isNum THEN 1
    ELSE sign(StrRank(a.s), StrRank(b.s))

\* SemVer.compareMain
compareMain(a, b) ==
    IF a.major # b.major THEN sign(a.major, b.major)
    ELSE IF a.minor # b.minor THEN sign(a.minor, b.minor)
    ELSE sign(a.patch, b.patch)

\* the loop of SemVer.comparePre, from identifier i (1-based) on
RECURSIVE comparePreFrom(_, _, _)
comparePreFrom(p, q, i) ==
    IF i > Len(p) /\ i > Len(q) THEN 0
    ELSE IF i > Len(q) THEN 1
    ELSE IF i > Len(p) THEN -1
    ELSE IF p[i] = q[i] THEN comparePreFrom(p, q, i + 1)
    ELSE compareIdentifiers(p[i], q[i])

\* SemVer.comparePre: a release with no prerelease comes after one with
comparePre(a, b) ==
    IF Len(a.prerelease) > 0 /\ Len(b.prerelease) = 0 THEN -1
    ELSE IF Len(a.prerelease) = 0 /\ Len(b.prerelease) > 0 THEN 1
    ELSE IF Len(a.prerelease) = 0 /\ Len(b.prerelease) = 0 THEN 0
    ELSE comparePreFrom(a.prerelease, b.prerelease, 1)

\* const [prea] = a.prerelease; prea === 'nightly'
firstIsNightly(a) == Len(a.prerelease) > 0 /\ a.prerelease[1] = Str("nightly")

\* semver's own precedence, which puts "nightly" after "alpha" and "beta"
compareVersionsSemver(a, b) ==
    LET l == compareMain(a, b)
    IN  IF l # 0 THEN l ELSE comparePre(a, b)

compareVersions(a, b) ==
    LET l == compareMain(a, b)
    IN  IF l # 0 THEN l
        ELSE IF firstIsNightly(a) /\ ~firstIsNightly(b) THEN -1
        ELSE IF ~firstIsNightly(a) /\ firstIsNightly(b) THEN 1
        ELSE comparePre(a, b)

\* ------------------------------------------------------------- setVersions

\* what semverParse returns for a string that is no version
null == SemVer(-1, -1, -1, <<>>)

\* A version string of a releases document: it may carry a leading "v", which
\* parsing drops, or be no version at all.
RawString(v, valid, ver) == [v |-> v, valid |-> valid, ver |-> ver]

\* semver's parse: the SemVer of a valid string, null otherwise
semverParse(raw) == IF raw.valid THEN raw.ver ELSE null

\* A releases document: the JSON value and, when it is an array, its items;
\* an item is a string or an object with a version field.  falsy tells a
\* value that !value takes for missing: undefined, null, 0, false or "".
Document(isArray, kind, strings) ==
    [isArray |-> isArray, falsy |-> FALSE,
     items |-> [i \in 1..Len(strings) |-> [kind |-> kind, version |-> strings[i]]]]

isArrayOfVersionObjects(val) ==
    val.isArray /\ \A i \in 1..Len(val.items) : val.items[i].kind = "object"

isArrayOfStrings(val) ==
    val.isArray /\ \A i \in 1..Len(val.items) : val.items[i].kind = "string"

\* Array.prototype.filter
RECURSIVE filterNonNull(_)
filterNonNull(arr) ==
    IF arr = <<>> THEN <<>>
    ELSE IF Head(arr) = null THEN filterNonNull(Tail(arr))
    ELSE <<Head(arr)>> \o filterNonNull(Tail(arr))

\* one step of a stable sort: x goes after every element that does not
\* compare greater than it
RECURSIVE insertSorted(_, _)
insertSorted(sorted, x) ==
    IF sorted = <<>> THEN <<x>>
    ELSE IF compareVersions(Head(sorted), x) <= 0
         THEN <<Head(sorted)>> \o insertSorted(Tail(sorted), x)
    ELSE <<x>> \o sorted

\* Array.prototype.sort((a, b) => compareVersions(a, b)), which is stable
RECURSIVE sortVersions(_)
sortVersions(arr) ==
    IF arr = <<>> THEN <<>>
    ELSE insertSorted(sortVersions(SubSeq(arr, 1, Len(arr) - 1)), arr[Len(arr)])

\* an array filled with push: every parsed version is kept, also one whose
\* canonical string is already there
mapPushAll(m, semvers) == m \o semvers

\* for (const sem of semvers) this.map.set(sem.version, sem): a key already
\* in the Map keeps its place
RECURSIVE mapSetAll(_, _)
mapSetAll(m, semvers) ==
    IF semvers = <<>> THEN m
    ELSE mapSetAll(IF \E i \in 1..Len(m) : m[i] = Head(semvers)
                   THEN m ELSE Append(m, Head(semvers)),
                   Tail(semvers))

\* BaseVersions.setVersions: the Map's values after the call
setVersions(val) ==
    LET parsed ==
            IF isArrayOfVersionObjects(val) \/ isArrayOfStrings(val)
            THEN [i \in 1..Len(val.items) |-> semverParse(val.items[i].version)]
            ELSE <<>>
    IN  mapSetAll(<<>>, sortVersions(filterNonNull(parsed)))

\* ---------------------------------------------------- BaseVersions getters

NUM_SUPPORTED_MAJORS == 4

\* [...new Set(arr)]: the distinct elements in order of first appearance
RECURSIVE distinct(_)
distinct(arr) ==
    IF arr = <<>> THEN <<>>
    ELSE LET init == distinct(SubSeq(arr, 1, Len(arr) - 1))
             x    == arr[Len(arr)]
         IN  IF \E i \in 1..Len(init) : init[i] = x THEN init ELSE Append(init, x)

isStable(ver) == Len(ver.prerelease) = 0

majorsOf(m) == [i \in 1..Len(m) |-> m[i].major]

stableMajors(m) == distinct(majorsOf(SelectSeq(m, isStable)))

prereleaseMajors(m) ==
    LET stable == stableMajors(m)
        keep(major) == ~\E i \in 1..Len(stable) : stable[i] = major
    IN  SelectSeq(distinct(majorsOf(m)), keep)

\* this.stableMajors.slice(-NUM_SUPPORTED_MAJORS)
supportedMajors(stable) == slice(stable, -NUM_SUPPORTED_MAJORS, Len(stable))

\* this.stableMajors.slice(0, -NUM_SUPPORTED_MAJORS)
obsoleteMajors(stable) == slice(stable, 0, -NUM_SUPPORTED_MAJORS)

\* this.versions.pop(): the last element, if any
latest(vers) == IF vers = <<>> THEN <<>> ELSE <<vers[Len(vers)]>>

latestStable(m) == latest(SelectSeq(m, isStable))

isVersion(m, ver) == \E i \in 1..Len(m) : m[i] = ver

inMajor(m, major) == LET same(ver) == ver.major = major IN SelectSeq(m, same)

\* --------------------------------------------------------- ElectronVersions

\* const VERSION_CACHE_TTL_MS = 4 * 60 * 60 * 1000
VERSION_CACHE_TTL_MS == 4 * 60 * 60 * 1000

isCacheFresh(cacheTimeMs, t) == t <= cacheTimeMs + VERSION_CACHE_TTL_MS

\* The part of an ElectronVersions that fetch and keepFresh work on:
\*   map      the Map's values
\*   mtimeMs  this.mtimeMs
\*   fetches  the calls of fetch that await fetchVersions, oldest first
\*   settled  the call of fetch that returned in this step, if one did
\* A call of fetch is a record
\*   saved     const { mtimeMs } = this, the timestamp the catch restores
\*   at        the time of the call, which the call writes to this.mtimeMs
\*   by        "read" when keepFresh made the call, "explicit" otherwise
\*   before    the Map's values when the call was made
\*   replaced  whether another call has replaced the Map's values since
\*   overtaken whether a call made after this one has replaced them since
\*   status    "inflight" while fetchVersions is awaited, then "ok" or "failed"
\*   promise   the promise fetch returned: "pending", "resolved" or "rejected"
Catalog(m, mtime, calls, last) ==
    [map |-> m, mtimeMs |-> mtime, fetches |-> calls, settled |-> last]

FetchCall(c, t, by) ==
    [saved |-> c.mtimeMs, at |-> t, by |-> by, before |-> c.map,
     replaced |-> FALSE, overtaken |-> FALSE,
     status |-> "inflight", promise |-> "pending"]

\* no call of fetch has just returned
NoFetch ==
    [saved |-> 0, at |-> 0, by |-> "none", before |-> <<>>,
     replaced |-> FALSE, overtaken |-> FALSE,
     status |-> "none", promise |-> "none"]

\* the sequence without its element f
remove(arr, f) == SubSeq(arr, 1, f - 1) \o SubSeq(arr, f + 1, Len(arr))

\* a fetch that awaits nothing: the Map is replaced before fetch returns
fetchBlocking(c, t, by) ==
    [c EXCEPT !.mtimeMs = t,
              !.map = <<>>,
              !.settled = [FetchCall(c, t, by) EXCEPT !.status = "ok",
                                                     !.promise = "resolved"]]

\* ElectronVersions.fetch up to its await: lines 249-252
fetch(c, t, by) ==
    [c EXCEPT !.mtimeMs = t,
              !.fetches = Append(@, FetchCall(c, t, by))]

\* ElectronVersions.fetch once fetchVersions has resolved with a document:
\* lines 253-254
fetchThen(c, f, doc) ==
    [c EXCEPT !.map = setVersions(doc),
              !.fetches = [i \in 1..(Len(@) - 1) |->
                              [remove(@, f)[i] EXCEPT
                                  !.replaced = TRUE,
                                  !.overtaken = @ \/ i < f]],
              !.settled = [c.fetches[f] EXCEPT !.status = "ok",
                                               !.promise = "resolved"]]

\* a catch that drops what is in memory
fetchCatchClears(c, f) ==
    [c EXCEPT !.map = <<>>,
              !.mtimeMs = c.fetches[f].saved,
              !.fetches = remove(@, f),
              !.settled = [c.fetches[f] EXCEPT !.status = "failed",
                                               !.promise = "resolved"]]

\* ElectronVersions.fetch once fetchVersions has rejected: lines 255-258
fetchCatch(c, f) ==
    [c EXCEPT !.mtimeMs = c.fetches[f].saved,
              !.fetches = remove(@, f),
              !.settled = [c.fetches[f] EXCEPT !.status = "failed",
                                               !.promise = "resolved"]]

\* ElectronVersions.keepFresh, up to the await inside fetch
keepFresh(c, t) == IF ~isCacheFresh(c.mtimeMs, t) THEN fetch(c, t, "read") ELSE c

\* What an accessor returns: a list of majors, a list of versions (a single
\* version or undefined is a list of one or none) or a boolean.
Majors(list) == [majors |-> list, versions |-> <<>>, flag |-> FALSE]

Versions(list) == [majors |-> <<>>, versions |-> list, flag |-> FALSE]

Flag(b) == [majors |-> <<>>, versions |-> <<>>, flag |-> b]

\* an accessor's outcome: the catalog after the call and the value returned
Outcome(c, value) == [c |-> c, value |-> value]

\* The accessors of ElectronVersions: void this.keepFresh(), then the getter of
\* BaseVersions, whose reads of this.stableMajors and this.versions go to the
\* overriding accessors.
ElectronVersions_prereleaseMajors(c, t) ==
    LET c1 == keepFresh(c, t) IN Outcome(c1, Majors(prereleaseMajors(c1.map)))

ElectronVersions_stableMajors(c, t) ==
    LET c1 == keepFresh(c, t) IN Outcome(c1, Majors(stableMajors(c1.map)))

ElectronVersions_supportedMajors(c, t) ==
    LET r == ElectronVersions_stableMajors(keepFresh(c, t), t)
    IN  Outcome(r.c, Majors(supportedMajors(r.value.majors)))

ElectronVersions_obsoleteMajors(c, t) ==
    LET r == ElectronVersions_stableMajors(keepFresh(c, t), t)
    IN  Outcome(r.c, Majors(obsoleteMajors(r.value.majors)))

ElectronVersions_versions(c, t) ==
    LET c1 == keepFresh(c, t) IN Outcome(c1, Versions(c1.map))

ElectronVersions_latest(c, t) ==
    LET r == ElectronVersions_versions(keepFresh(c, t), t)
    IN  Outcome(r.c, Versions(latest(r.value.versions)))

ElectronVersions_latestStable(c, t) ==
    LET c1 == keepFresh(c, t) IN Outcome(c1, Versions(latestStable(c1.map)))

ElectronVersions_isVersion(c, t, ver) ==
    LET c1 == keepFresh(c, t) IN Outcome(c1, Flag(isVersion(c1.map, ver)))

ElectronVersions_inMajor(c, t, major) ==
    LET c1 == keepFresh(c, t) IN Outcome(c1, Versions(inMajor(c1.map, major)))

ElectronVersions_inRange(c, t, a, b) ==
    LET c1 == keepFresh(c, t) IN Outcome(c1, Versions(inRange(c1.map, a, b)))

\* a call of an accessor: its name and arguments
Call(acc, a, b, major) == [acc |-> acc, a |-> a, b |-> b, major |-> major]

accessorCall(c, t, call) ==
    CASE call.acc = "prereleaseMajors" -> ElectronVersions_prereleaseMajors(c, t)
      [] call.acc = "stableMajors" -> ElectronVersions_stableMajors(c, t)
      [] call.acc = "supportedMajors" -> ElectronVersions_supportedMajors(c, t)
      [] call.acc = "obsoleteMajors" -> ElectronVersions_obsoleteMajors(c, t)
      [] call.acc = "versions" -> ElectronVersions_versions(c, t)
      [] call.acc = "latest" -> ElectronVersions_latest(c, t)
      [] call.acc = "latestStable" -> ElectronVersions_latestStable(c, t)
      [] call.acc = "isVersion" -> ElectronVersions_isVersion(c, t, call.a)
      [] call.acc = "inMajor" -> ElectronVersions_inMajor(c, t, call.major)
      [] call.acc = "inRange" -> ElectronVersions_inRange(c, t, call.a, call.b)

\* the value the same call returns on a catalog that needs no refresh
accessorValue(m, call) == accessorCall(Catalog(m, 0, <<>>, NoFetch), 0, call).value

\* ------------------------------------------------------------------ Runner

TestStatus == {"test_passed", "test_failed", "test_error", "system_error"}

\* what the child process does: it cannot be started ('error' event), it exits
\* with a code, or a signal ends it ('exit' event whose code is null, here -1)
NullCode == -1

ChildEvents ==
    {[event |-> "error", code |-> NullCode]} \cup
    {[event |-> "exit", code |-> c] : c \in {0, 1, 2, NullCode}}

\* every exit code other than 0 counts as a failed test
runStatusNonZeroFails(ev) ==
    IF ev.event = "error" THEN "system_error"
    ELSE IF ev.code = 0 THEN "test_passed"
    ELSE "test_failed"

\* Runner.run: the TestResult the first event of the child resolves with
runStatus(ev) ==
    IF ev.event = "error" THEN "system_error"
    ELSE IF ev.code = 0 THEN "test_passed"
    ELSE IF ev.code = 1 THEN "test_failed"
    ELSE "test_error"

\* no event of the child has been handled yet
NoEvent == [event |-> "none", code |-> NullCode]

\* A call of Runner.run:
\*   index    the index of the version it runs
\*   state    the promise run returned: "pending", "fulfilled" or "rejected"
\*   value    the status the promise was fulfilled with
\*   first    the first event the child process emitted
\*   resolves how many times a handler called resolve
\*   settles  how many times the promise changed its state
\*   mayExit  whether the child may still emit 'exit'
\*   installing  whether getExec has asked isVersion and awaits
\*               installer.install (line 408)
RunCall(index) ==
    [index |-> index, state |-> "pending", value |-> undefined,
     first |-> NoEvent, resolves |-> 0, settles |-> 0, mayExit |-> FALSE,
     installing |-> FALSE]

\* line 551: await this.spawn(...) throws, so the promise run returned rejects
runRejects(run) == [run EXCEPT !.state = "rejected", !.settles = @ + 1]

\* resolve({ status }): only the first call settles the promise
resolve(run, status) ==
    IF run.state = "pending"
    THEN [run EXCEPT !.state = "fulfilled", !.value = status,
                     !.resolves = @ + 1, !.settles = @ + 1]
    ELSE [run EXCEPT !.resolves = @ + 1]

\* lines 554-562: the handler of the child's event ev.  After 'error' the
\* child may or may not emit 'exit'; after 'exit' it emits nothing more.
onEvent(run, ev) ==
    [resolve(run, runStatus(ev)) EXCEPT
        !.first = IF run.first = NoEvent THEN ev ELSE @,
        !.mayExit = run.first = NoEvent /\ ev.event = "error"]

\* the sequence with its last element replaced
setLast(arr, x) == [arr EXCEPT ![Len(arr)] = x]

\* a midpoint that scans the window from its left end
midpointLinear(l, r) == l + 1

\* the midpoint of the window
midpoint(l, r) == MathRoundHalf(2 * l + (r - l))

\* results[i]: undefined for an index never assigned
resultAt(i) == IF i \in DOMAIN results THEN results[i] ELSE undefined

Pending == [kind |-> "pending"]

Returned(status, range) == [kind |-> "returned", status |-> status, range |-> range]

Rejected(error) == [kind |-> "rejected", error |-> error]

\* a success test that looks at results[left] alone
bisectOutcomeLeftOnly(l, r, last) ==
    IF resultAt(l) = undefined THEN Rejected("TypeError")
    ELSE IF resultAt(l) = "test_passed"
         THEN Returned("bisect_succeeded", <<At(versions, l), At(versions, r)>>)
    ELSE IF last \in {"test_error", "system_error"}
         THEN Returned(last, <<>>)
    ELSE Returned("system_error", <<>>)

\* lines 638-665: the value bisect settles with, given the final window.
\* Reading .status of an undefined element throws a TypeError, which rejects
\* the promise; && evaluates results[right] only when the left test is true.
bisectOutcome(l, r, last) ==
    IF resultAt(l) = undefined THEN Rejected("TypeError")
    ELSE IF resultAt(l) = "test_passed" /\ resultAt(r) = undefined
         THEN Rejected("TypeError")
    ELSE IF resultAt(l) = "test_passed" /\ resultAt(r) = "test_failed"
         THEN Returned("bisect_succeeded", <<At(versions, l), At(versions, r)>>)
    ELSE IF last \in {"test_error", "system_error"}
         THEN Returned(last, <<>>)
    ELSE Returned("system_error", <<>>)

\* no accessor call has just returned
NoRead ==
    [call |-> Call("none", null, null, 0), value |-> Flag(FALSE),
     stale |-> FALSE, started |-> 0, refreshing |-> FALSE]

\* What a call under observation was given and what it returned:
\*   fn        "creating" while create is awaited, "create" once it has
\*             returned, "inRange" or "compareVersions"
\*   a, b, c   the versions passed
\*   range     what inRange returned
\*   order     what compareVersions returned for (a, b), (b, a), (b, c),
\*             (a, c) and (a, a)
\*   from      where create took the releases from: "file", "fetch" or "none"
\*   obtained  when those releases were obtained
\*   stamp     const now of create, the mtimeMs it gives the catalog
NoProbe ==
    [fn |-> "none", a |-> null, b |-> null, c |-> null, range |-> <<>>,
     order |-> <<>>, from |-> "none", obtained |-> 0, stamp |-> 0]

\* no other caller has used the Runner
NoDirect == [created |-> 0, awaiting |-> 0]

\* ------------------------------------------- ElectronVersions: the actions

v100 == SemVer(1, 0, 0, <<>>)

v200nightly == SemVer(2, 0, 0, <<Str("nightly"), Num(1)>>)

v200alpha == SemVer(2, 0, 0, <<Str("alpha"), Num(1)>>)

v200 == SemVer(2, 0, 0, <<>>)

v300beta == SemVer(3, 0, 0, <<Str("beta"), Num(1)>>)

\* ["2.0.0", "1.0.0", "2.0.0-alpha.1", "2.0.0-nightly.1"]
DocStrings ==
    Document(TRUE, "string",
             <<RawString(FALSE, TRUE, v200), RawString(FALSE, TRUE, v100),
               RawString(FALSE, TRUE, v200alpha), RawString(FALSE, TRUE, v200nightly)>>)

\* [{version: "v3.0.0-beta.1"}, {version: "1.0.0"}, {version: "latest"},
\*  {version: "v1.0.0"}]
DocObjects ==
    Document(TRUE, "object",
             <<RawString(TRUE, TRUE, v300beta), RawString(FALSE, TRUE, v100),
               RawString(FALSE, FALSE, null), RawString(TRUE, TRUE, v100)>>)

\* a JSON value that is no array, such as {"message": "not found"}
DocOther == Document(FALSE, "string", <<>>)

\* undefined, or a JSON value that is falsy, such as null
DocFalsy == [DocOther EXCEPT !.falsy = TRUE]

\* the documents the releases feed or the cache file may hold
Docs == {DocStrings, DocObjects, DocOther}

\* the accessor calls a reader makes
Calls ==
    {Call(acc, null, null, 0) :
        acc \in {"prereleaseMajors", "stableMajors", "supportedMajors",
                 "obsoleteMajors", "versions", "latest", "latestStable"}}
    \cup {Call("isVersion", v300beta, null, 0), Call("inMajor", null, null, 2),
          Call("inRange", v200, v100, 0)}

\* the clock advances by the time to live, or by a millisecond more
TickSteps == {VERSION_CACHE_TTL_MS, VERSION_CACHE_TTL_MS + 1}

ticks(t) == t \div VERSION_CACHE_TTL_MS

this == Catalog(map, mtimeMs, fetches, settled)

\* the calls of fetch in flight that keepFresh made
byRead(calls) == LET read(call) == call.by = "read" IN SelectSeq(calls, read)

Tick(d) ==
    /\ ticks(now) < MaxTicks
    /\ now' = now + d
    /\ settled' = NoFetch
    /\ lastRead' = NoRead
    /\ UNCHANGED <<map, mtimeMs, fetches, nfetch, probe, bisectVars>>

\* a reader calls an accessor, which returns before anything awaited goes on
Read(call) ==
    LET r == accessorCall([this EXCEPT !.settled = NoFetch], now, call)
    IN  /\ nfetch + (Len(r.c.fetches) - Len(fetches)) <= MaxFetches
        /\ nfetch' = nfetch + (Len(r.c.fetches) - Len(fetches))
        /\ map' = r.c.map
        /\ mtimeMs' = r.c.mtimeMs
        /\ fetches' = r.c.fetches
        /\ settled' = r.c.settled
        /\ lastRead' = [call |-> call, value |-> r.value,
                        stale |-> ~isCacheFresh(mtimeMs, now),
                        started |-> Len(r.c.fetches) - Len(fetches),
                        refreshing |-> byRead(fetches) # <<>>]
        /\ UNCHANGED <<now, probe, bisectVars>>

\* a caller calls fetch() itself
Fetch ==
    LET c == fetch([this EXCEPT !.settled = NoFetch], now, "explicit")
    IN  /\ nfetch < MaxFetches
        /\ nfetch' = nfetch + 1
        /\ map' = c.map
        /\ mtimeMs' = c.mtimeMs
        /\ fetches' = c.fetches
        /\ settled' = c.settled
        /\ lastRead' = NoRead
        /\ UNCHANGED <<now, probe, bisectVars>>

\* fetchVersions resolves for the call f: the releases were fetched, parsed as
\* JSON and written to the cache file
FetchResolves(f, doc) ==
    LET c == fetchThen(this, f, doc)
    IN  /\ f <= Len(fetches)
        /\ map' = c.map
        /\ mtimeMs' = c.mtimeMs
        /\ fetches' = c.fetches
        /\ settled' = c.settled
        /\ lastRead' = NoRead
        /\ UNCHANGED <<now, nfetch, probe, bisectVars>>

\* fetchVersions rejects for the call f: the request, the JSON or the write
\* failed
FetchRejects(f) ==
    LET c == fetchCatch(this, f)
    IN  /\ f <= Len(fetches)
        /\ map' = c.map
        /\ mtimeMs' = c.mtimeMs
        /\ fetches' = c.fetches
        /\ settled' = c.settled
        /\ lastRead' = NoRead
        /\ UNCHANGED <<now, nfetch, probe, bisectVars>>

\* an ElectronVersions right after create, which stamps it with the time of
\* the call
CatalogInit ==
    /\ \E doc \in Docs : map = setVersions(doc)
    /\ mtimeMs = 0
    /\ now = 0
    /\ fetches = <<>>
    /\ settled = NoFetch
    /\ nfetch = 0
    /\ lastRead = NoRead
    /\ probe = NoProbe
    /\ pc = "idle"
    /\ versions = <<>>
    /\ left = 0
    /\ right = 0
    /\ result = undefined
    /\ testOrder = <<>>
    /\ results = [i \in {} |-> undefined]
    /\ mid = 0
    /\ bisectResult = Pending
    /\ creates = <<>>
    /\ runs = <<>>
    /\ direct = NoDirect

CatalogNext ==
    \/ \E d \in TickSteps : Tick(d)
    \/ \E call \in Calls : Read(call)
    \/ Fetch
    \/ \E f \in 1..MaxFetches, doc \in Docs : FetchResolves(f, doc)
    \/ \E f \in 1..MaxFetches : FetchRejects(f)

CatalogSpec == CatalogInit /\ [][CatalogNext]_vars

\* ------------------------------------------------------ Runner: the actions

\* what an accessor of the Runner's ElectronVersions (the catalog Runner.create
\* builds, line 382) gives when it is called now
asked(call) == accessorCall([this EXCEPT !.settled = NoFetch], now, call)

\* the catalog after the accessor call whose outcome is r: keepFresh may have
\* moved the timestamp and started a fetch
versionsCall(r) ==
    /\ nfetch + (Len(r.c.fetches) - Len(fetches)) <= MaxRefreshes
    /\ nfetch' = nfetch + (Len(r.c.fetches) - Len(fetches))
    /\ map' = r.c.map
    /\ mtimeMs' = r.c.mtimeMs
    /\ fetches' = r.c.fetches
    /\ settled' = r.c.settled
    /\ lastRead' = NoRead
    /\ UNCHANGED <<now, probe>>

\* bisect(version_a, version_b, fiddleIn): lines 580-581, up to the first
\* await.  Every call has its own locals; a call made after the previous one
\* settled starts from unset ones.
Bisect(a, b) ==
    LET r == asked(Call("inRange", a, b, 0))
    IN  /\ pc \in {"idle", "done"}
        /\ versionsCall(r)
        /\ versions' = r.value.versions
        /\ creates' = <<"source">>
        /\ runs' = <<>>
        /\ left' = 0
        /\ right' = 0
        /\ result' = undefined
        /\ testOrder' = <<>>
        /\ results' = [i \in {} |-> undefined]
        /\ mid' = 0
        /\ bisectResult' = Pending
        /\ pc' = "create"
        /\ UNCHANGED direct

\* line 581-603: fiddleFactory.create resolves with a fiddle; the window and
\* the bookkeeping are initialised
CreateFiddle ==
    /\ pc = "create"
    /\ left' = 0
    /\ right' = Len(versions) - 1
    /\ result' = undefined
    /\ testOrder' = <<>>
    /\ results' = [i \in {} |-> undefined]
    /\ pc' = "loop"
    /\ UNCHANGED <<catalogVars, versions, mid, bisectResult, creates, runs, direct>>

\* line 581-582: fiddleFactory.create rejects, or resolves with no fiddle
CreateFiddleFails ==
    /\ pc = "create"
    /\ pc' = "done"
    /\ bisectResult' = Rejected("InvalidFiddle")
    /\ UNCHANGED <<catalogVars, versions, left, right, result, testOrder, results,
                   mid, creates, runs, direct>>

\* lines 604-610: the loop test holds; the midpoint is chosen and run is
\* called with the fiddle bisect created; run calls spawn, which calls
\* fiddleFactory.create with it (line 461) and awaits
LoopStep ==
    /\ pc = "loop"
    /\ left + 1 < right
    /\ mid' = midpoint(left, right)
    /\ testOrder' = Append(testOrder, mid')
    /\ runs' = Append(runs, RunCall(mid'))
    /\ creates' = Append(creates, "fiddle")
    /\ pc' = "spawn"
    /\ UNCHANGED <<catalogVars, versions, left, right, result, results,
                   bisectResult, direct>>

\* line 604: the loop test fails
LoopExit ==
    /\ pc = "loop"
    /\ ~(left + 1 < right)
    /\ pc' = "finish"
    /\ UNCHANGED <<catalogVars, versions, left, right, result, testOrder, results,
                   mid, bisectResult, creates, runs, direct>>

\* How getExec (lines 397-411) finds the executable of a version:
\*   "path"     statSync finds a file, or a directory that holds the
\*              executable; the catalog is not asked
\*   "install"  statSync throws, isVersion is true and install resolves
ExecsFound == {"path", "install"}

\* Why spawn rejects:
\*   "fiddle"        fiddleFactory.create gives no fiddle (line 462)
\*   "directory"     statSync finds a directory without the executable
\*   "unrecognized"  statSync throws and isVersion is false (line 410)
\*   "install"       statSync throws, isVersion is true and install rejects
SpawnErrors == {"fiddle", "directory", "unrecognized", "install"}

\* getExec's call of this.versions.isVersion for the version under test
askedIsVersion == asked(Call("isVersion", At(versions, mid), null, 0))

\* whether the run under way awaits installer.install
installing == runs[Len(runs)].installing

\* lines 461-465 and 397-408: the fiddle of run resolves and getExec is
\* called; statSync throws, isVersion is asked and is true, and getExec awaits
\* installer.install
GetExecInstall ==
    /\ pc = "spawn"
    /\ ~installing
    /\ askedIsVersion.value.flag
    /\ versionsCall(askedIsVersion)
    /\ runs' = setLast(runs, [runs[Len(runs)] EXCEPT !.installing = TRUE])
    /\ UNCHANGED <<pc, versions, left, right, result, testOrder, results,
                   mid, bisectResult, creates, direct>>

\* run is called without await: the loop goes on while the child runs
SpawnChildNotAwaited(exec) ==
    /\ pc = "spawn"
    /\ pc' = "loop"
    /\ UNCHANGED <<catalogVars, versions, left, right, result, testOrder, results,
                   mid, bisectResult, creates, runs, direct>>

\* lines 461-482 and 551-563: spawn resolves with a child process and run
\* attaches its handlers.  exec = "path": the fiddle resolves and getExec finds
\* the executable on the file system.  exec = "install": installer.install,
\* awaited since getExec asked isVersion, resolves.
SpawnChild(exec) ==
    /\ pc = "spawn"
    /\ installing <=> exec = "install"
    /\ runs' = setLast(runs, [runs[Len(runs)] EXCEPT !.installing = FALSE])
    /\ pc' = "child"
    /\ UNCHANGED <<catalogVars, versions, left, right, result, testOrder, results,
                   mid, bisectResult, creates, direct>>

\* lines 461-465 and 551: this.spawn rejects and with it the promise run
\* returned.  why = "install": installer.install, awaited since getExec asked
\* isVersion, rejects.  Otherwise the fiddle resolves or fails and spawn
\* throws before it awaits anything else.
SpawnFails(why) ==
    /\ pc = "spawn"
    /\ installing <=> why = "install"
    /\ IF why = "unrecognized"
       THEN ~askedIsVersion.value.flag /\ versionsCall(askedIsVersion)
       ELSE UNCHANGED catalogVars
    /\ runs' = setLast(runs, [runRejects(runs[Len(runs)]) EXCEPT
                                 !.installing = FALSE])
    /\ pc' = "rejected"
    /\ UNCHANGED <<versions, left, right, result, testOrder, results,
                   mid, bisectResult, creates, direct>>

\* line 610: the await of the rejected run throws; bisect has no try/catch and
\* rejects
Rethrow ==
    /\ pc = "rejected"
    /\ pc' = "done"
    /\ bisectResult' = Rejected("SpawnError")
    /\ UNCHANGED <<catalogVars, versions, left, right, result, testOrder, results,
                   mid, creates, runs, direct>>

\* lines 553-563: the child's first event calls resolve, which fulfils the
\* promise run returned
ChildEvent(ev) ==
    /\ pc = "child"
    /\ runs' = setLast(runs, onEvent(runs[Len(runs)], ev))
    /\ pc' = "resolved"
    /\ UNCHANGED <<catalogVars, versions, left, right, result, testOrder, results,
                   mid, bisectResult, creates, direct>>

\* a window whose left end never moves
nextLeftStays(l, m, status) == l

\* the window after a run: lines 614-622
nextLeft(l, m, status) == IF status = "test_passed" THEN m ELSE l

\* a window whose right end moves after every run, whatever its status
nextRightAlways(r, m, status) == m

nextRight(r, m, status) == IF status = "test_failed" THEN m ELSE r

\* does the loop go on after this status (continue) or stop (break)
continues(status) == status \in {"test_passed", "test_failed"}

\* lines 610-622: bisect resumes from its await with the status run was
\* fulfilled with; the outcome is recorded and the window moved
Record ==
    /\ pc = "resolved"
    /\ result' = runs[Len(runs)].value
    /\ results' = [i \in DOMAIN results \cup {mid} |->
                      IF i = mid THEN result' ELSE results[i]]
    /\ left' = nextLeft(left, mid, result')
    /\ right' = nextRight(right, mid, result')
    /\ pc' = IF continues(result') THEN "loop" ELSE "finish"
    /\ UNCHANGED <<catalogVars, versions, testOrder, mid, bisectResult, creates,
                   runs, direct>>

\* lines 558-562: a child that emitted 'error' emits 'exit' after all; the
\* handler calls resolve on a promise that is settled already
LateExit ==
    /\ runs # <<>>
    /\ runs[Len(runs)].mayExit
    /\ runs' = setLast(runs, onEvent(runs[Len(runs)],
                                     [event |-> "exit", code |-> NullCode]))
    /\ UNCHANGED <<catalogVars, pc, versions, left, right, result, testOrder,
                   results, mid, bisectResult, creates, direct>>

\* lines 625-665
Finish ==
    /\ pc = "finish"
    /\ bisectResult' = bisectOutcome(left, right, result)
    /\ pc' = "done"
    /\ UNCHANGED <<catalogVars, versions, left, right, result, testOrder, results,
                   mid, creates, runs, direct>>

\* Another caller uses the same Runner while the call of bisect goes on, or
\* while none does.  fn = "spawn": spawn, spawnSync or run is called and
\* awaits fiddleFactory.create (lines 461, 495, 551).  fn = "bisect": bisect
\* is called a second time, reads inRange and awaits fiddleFactory.create
\* (lines 580-581); the runs of that call are calls of run.
DirectCall(fn) ==
    /\ direct.created < MaxDirect
    /\ IF fn = "bisect"
       THEN /\ versionsCall(asked(Call("inRange", UnknownVersion, UnknownVersion, 0)))
            /\ direct' = [direct EXCEPT !.created = @ + 1]
       ELSE /\ direct' = [created |-> direct.created + 1,
                          awaiting |-> direct.awaiting + 1]
            /\ UNCHANGED catalogVars
    /\ UNCHANGED <<pc, versions, left, right, result, testOrder, results, mid,
                   bisectResult, creates, runs>>

\* lines 465 and 499: the fiddle of a direct call resolved and getExec is
\* called; it asks the catalog unless statSync finds the path.  Whether the
\* call then throws, or awaits installer.install and goes on, changes nothing
\* the Runner keeps.
DirectGetExec(found) ==
    /\ direct.awaiting > 0
    /\ direct' = [direct EXCEPT !.awaiting = @ - 1]
    /\ IF found
       THEN UNCHANGED catalogVars
       ELSE versionsCall(asked(Call("isVersion", UnknownVersion, null, 0)))
    /\ UNCHANGED <<pc, versions, left, right, result, testOrder, results, mid,
                   bisectResult, creates, runs>>

\* a Runner right after Runner.create, over the ElectronVersions that
\* ElectronVersions.create stamped with the time of the call
Init ==
    /\ \E n \in 0..MaxVersions : map = StableCatalog(n)
    /\ mtimeMs = 0
    /\ now = 0
    /\ fetches = <<>>
    /\ settled = NoFetch
    /\ nfetch = 0
    /\ lastRead = NoRead
    /\ probe = NoProbe
    /\ pc = "idle"
    /\ versions = <<>>
    /\ left = 0
    /\ right = 0
    /\ result = undefined
    /\ testOrder = <<>>
    /\ results = [i \in {} |-> undefined]
    /\ mid = 0
    /\ bisectResult = Pending
    /\ creates = <<>>
    /\ runs = <<>>
    /\ direct = NoDirect

\* the endpoints a caller may pass: the oldest or the newest known version,
\* or an unknown one
Endpoints == {map[i] : i \in {1, Len(map)} \cap DOMAIN map} \cup {UnknownVersion}

\* the steps of the call of bisect that follow from what it awaits
Session ==
    \/ CreateFiddle
    \/ CreateFiddleFails
    \/ LoopStep
    \/ LoopExit
    \/ GetExecInstall
    \/ \E exec \in ExecsFound : SpawnChild(exec)
    \/ \E why \in SpawnErrors : SpawnFails(why)
    \/ Rethrow
    \/ \E ev \in ChildEvents : ChildEvent(ev)
    \/ Record
    \/ Finish

\* the steps of the catalog's surroundings: the clock passes the time to
\* live, and the releases feed answers a fetch or fails
Refresh ==
    \/ ticks(now) < MaxRefreshes /\ Tick(VERSION_CACHE_TTL_MS + 1)
    \/ \E f \in 1..MaxFetches : FetchResolves(f, DocStrings)
    \/ \E f \in 1..MaxFetches : FetchRejects(f)

Next ==
    \/ \E a \in Endpoints, b \in Endpoints : Bisect(a, b)
    \/ Session
    \/ LateExit
    \/ \E fn \in {"spawn", "bisect"} : DirectCall(fn)
    \/ \E found \in BOOLEAN : DirectGetExec(found)
    \/ Refresh

Spec == Init /\ [][Next]_vars

\* Whatever the call of bisect awaits settles: an awaited fiddle, spawn or
\* child process produces its outcome, and code that can run does.  Nothing
\* makes a child that emitted 'error' emit 'exit', the clock pass or another
\* caller call.
FairSpec == Spec /\ WF_vars(Session)

\* ------------------------------------------------ ElectronVersions.create

\* The cache file create finds: whether fs.stat succeeds, whether fs.readJson
\* does, the file's modification time and the JSON it holds.
CacheFile(exists, readable, mtime, doc) ==
    [exists |-> exists, readable |-> readable, mtimeMs |-> mtime, doc |-> doc]

\* what fetchVersions does when create calls it: it rejects, or resolves with
\* a document
Feed(ok, doc) == [ok |-> ok, doc |-> doc]

\* ElectronVersions.create called at time t, when the releases feed answers
\* at time answered: the catalog it returns, and where its releases come
\* from.  cached is the local versions after the first try block; values is
\* what the constructor is given.
create(file, t, feed, answered) ==
    LET read       == file.exists /\ file.readable
        cached     == IF read THEN file.doc ELSE DocFalsy
        staleCache == read /\ ~isCacheFresh(file.mtimeMs, t)
        asks       == cached.falsy \/ staleCache
        fetched    == asks /\ feed.ok
        values     == IF fetched THEN feed.doc ELSE cached
    IN  [map |-> setVersions(values),
         mtimeMs |-> t,
         from |-> IF fetched THEN "fetch" ELSE IF read THEN "file" ELSE "none",
         obtained |-> IF fetched THEN answered
                      ELSE IF read THEN file.mtimeMs ELSE t]

\* the cache files create may find when called at time t: none, one that
\* cannot be parsed, one older than the time to live, one exactly as old, one
\* a millisecond old, and one a millisecond old that holds null
CacheFiles(t) ==
    {CacheFile(FALSE, FALSE, t, DocFalsy), CacheFile(TRUE, FALSE, t - 1, DocFalsy),
     CacheFile(TRUE, TRUE, t - 1, DocFalsy)}
    \cup {CacheFile(TRUE, TRUE, m, DocObjects) :
             m \in {t - VERSION_CACHE_TTL_MS - 1, t - VERSION_CACHE_TTL_MS, t - 1}}

Feeds == {Feed(FALSE, DocOther), Feed(TRUE, DocStrings)}

\* lines 218-227: create is called and reads the clock, then awaits the file
\* system
CreateCall ==
    /\ probe.fn = "none"
    /\ probe' = [NoProbe EXCEPT !.fn = "creating", !.stamp = now]
    /\ UNCHANGED <<map, mtimeMs, now, fetches, settled, nfetch, lastRead,
                   bisectVars>>

\* create has read the clock and has not returned yet
creating == probe.fn = "creating"

\* lines 227-243: the file system and the releases feed have answered, the
\* feed now; create returns the catalog, stamped with the time it read at the
\* call
Create(file, feed) ==
    LET c == create(file, probe.stamp, feed, now)
    IN  /\ creating
        /\ map' = c.map
        /\ mtimeMs' = c.mtimeMs
        /\ probe' = [NoProbe EXCEPT !.fn = "create", !.from = c.from,
                                    !.obtained = c.obtained,
                                    !.stamp = c.mtimeMs]
        /\ UNCHANGED <<now, fetches, settled, nfetch, lastRead, bisectVars>>

\* the Runner has not been asked anything
idleRunner ==
    /\ pc = "idle"
    /\ versions = <<>>
    /\ left = 0
    /\ right = 0
    /\ result = undefined
    /\ testOrder = <<>>
    /\ results = [i \in {} |-> undefined]
    /\ mid = 0
    /\ bisectResult = Pending
    /\ creates = <<>>
    /\ runs = <<>>
    /\ direct = NoDirect

\* no refresh was ever started and no accessor read
quietCatalog ==
    /\ mtimeMs = 0
    /\ now = 0
    /\ fetches = <<>>
    /\ settled = NoFetch
    /\ nfetch = 0
    /\ lastRead = NoRead
    /\ probe = NoProbe

\* before ElectronVersions.create is called
CreateInit ==
    /\ map = <<>>
    /\ quietCatalog
    /\ idleRunner

\* create was called and has returned the catalog
created == probe.fn = "create"

CreateNext ==
    \/ CreateCall
    \/ creating /\ \E d \in TickSteps : Tick(d)
    \/ \E file \in CacheFiles(probe.stamp), feed \in Feeds : Create(file, feed)
    \/ created /\ CatalogNext

CreateSpec == CreateInit /\ [][CreateNext]_vars

\* ------------------------------------------------------ BaseVersions.inRange

\* the catalogs a BaseVersions is constructed with
Catalogs ==
    {StableCatalog(n) : n \in 0..MaxVersions} \cup {setVersions(doc) : doc \in Docs}

\* a caller asks for the range between a and b
InRange(a, b) ==
    /\ probe' = [NoProbe EXCEPT !.fn = "inRange", !.a = a, !.b = b,
                                !.range = inRange(map, a, b)]
    /\ UNCHANGED <<map, mtimeMs, now, fetches, settled, nfetch, lastRead,
                   bisectVars>>

RangeInit ==
    /\ map \in Catalogs
    /\ quietCatalog
    /\ idleRunner

\* the versions a caller may pass: those of any catalog, known to this one or
\* not
RangeEndpoints ==
    UNION {{m[i] : i \in 1..Len(m)} : m \in Catalogs} \cup {UnknownVersion}

RangeNext == \E a \in RangeEndpoints, b \in RangeEndpoints : InRange(a, b)

RangeSpec == RangeInit /\ [][RangeNext]_vars

\* ---------------------------------------------------------- compareVersions

\* the (major, minor, patch) triples and the prerelease lists compared
Triples == {<<1, 0, 2>>, <<1, 0, 10>>, <<1, 1, 0>>, <<2, 0, 0>>}

Prereleases ==
    {<<>>, <<Str("nightly")>>, <<Str("nightly"), Num(2)>>,
     <<Str("nightly"), Num(10)>>, <<Str("alpha"), Num(1)>>,
     <<Str("alpha"), Str("nightly")>>, <<Str("beta")>>,
     <<Str("beta"), Num(1)>>, <<Num(1)>>}

Universe == {SemVer(t[1], t[2], t[3], p) : t \in Triples, p \in Prereleases}

\* a caller compares a with b, b with a, b with c, a with c and a with itself;
\* one behaviour follows one such caller
Compare(a, b, c) ==
    /\ probe' = [NoProbe EXCEPT
                    !.fn = "compareVersions", !.a = a, !.b = b, !.c = c,
                    !.order = <<compareVersions(a, b), compareVersions(b, a),
                                compareVersions(b, c), compareVersions(a, c),
                                compareVersions(a, a)>>]
    /\ UNCHANGED <<map, mtimeMs, now, fetches, settled, nfetch, lastRead,
                   bisectVars>>

OrderInit ==
    /\ map = <<>>
    /\ quietCatalog
    /\ idleRunner

OrderNext ==
    /\ probe.fn = "none"
    /\ \E a \in Universe, b \in Universe, c \in Universe : Compare(a, b, c)

OrderSpec == OrderInit /\ [][OrderNext]_vars

\* ------------------------------------------------------ bisection: claims

Inconclusive == {"test_error", "system_error"}

succeeded == bisectResult.kind = "returned" /\ bisectResult.status = "bisect_succeeded"

\* bisect settled, and not because the payload or the executable failed to
\* resolve
settledAfterLoop ==
    /\ pc = "done"
    /\ bisectResult \notin {Rejected("InvalidFiddle"), Rejected("SpawnError")}

\* ceil(log2(n)) for n >= 1: the least k with 2^k >= n
RECURSIVE CeilLog2From(_, _, _)
CeilLog2From(n, k, pow) == IF pow >= n THEN k ELSE CeilLog2From(n, k + 1, 2 * pow)

CeilLog2(n) == CeilLog2From(n, 0, 1)

\* the outcomes recorded are those of a slice that passes up to index k and
\* fails from k + 1 on
monotoneUpTo(k) ==
    \A i \in DOMAIN results :
        results[i] = IF i <= k THEN "test_passed" ELSE "test_failed"

\* C1: once a midpoint run is inconclusive no further version is run, and
\* bisect returns an error result whose status is that outcome's kind.
C1_InconclusiveReturnsItsKind ==
    result \in Inconclusive =>
        /\ pc \in {"finish", "done"}
        /\ pc = "done" => bisectResult = Returned(result, <<>>)

\* C2: a success result names two adjacent versions of the slice,
\* slice[left] and slice[right] with right = left + 1.
C2_SuccessRangeAdjacent ==
    succeeded =>
        /\ right = left + 1
        /\ bisectResult.range = <<At(versions, left), At(versions, right)>>

\* C3: when the versions that ran passed up to some boundary k and failed
\* from k + 1 on, bisect returns success with the pair (slice[k], slice[k+1]).
C3_MonotoneOutcomesFindBoundary ==
    (settledAfterLoop /\ DOMAIN results # {}) =>
        \A k \in 0..(Len(versions) - 2) :
            monotoneUpTo(k) =>
                bisectResult = Returned("bisect_succeeded",
                                        <<At(versions, k), At(versions, k + 1)>>)

\* C4: a slice of fewer than 2 versions makes bisect return an error result,
\* and no test is run.
C4_DegenerateRangeIsAnError ==
    (settledAfterLoop /\ Len(versions) < 2) =>
        /\ testOrder = <<>>
        /\ bisectResult.kind = "returned"
        /\ bisectResult.status # "bisect_succeeded"

\* C5: when the loop ends with right - left <= 1 and no run was inconclusive
\* but without passed at left and failed at right, bisect returns the error
\* result system_error.
C5_NoConvergenceIsSystemError ==
    ( /\ settledAfterLoop
      /\ Len(versions) >= 2
      /\ right - left <= 1
      /\ result \notin Inconclusive
      /\ ~(resultAt(left) = "test_passed" /\ resultAt(right) = "test_failed") )
    => bisectResult = Returned("system_error", <<>>)

\* C6: bisect declares success only if the outcome recorded at left is passed
\* and the outcome recorded at right is failed.
C6_SuccessOnlyOnPassFail ==
    succeeded =>
        /\ resultAt(left) = "test_passed"
        /\ resultAt(right) = "test_failed"

C6_Witness ==
    /\ succeeded
    /\ left > 0
    /\ right < Len(versions) - 1

\* C7: the loop terminates, after at most ceil(log2(n)) test executions for a
\* slice of n >= 2 versions: every call of bisect settles, and never has it
\* run more versions than that.
C7_TerminatesWithinLogRuns ==
    /\ [](Len(versions) >= 2 => Len(testOrder) <= CeilLog2(Len(versions)))
    /\ (pc = "create") ~> (pc = "done")

C7_Witness ==
    /\ pc = "done"
    /\ Len(versions) >= 4
    /\ Len(testOrder) = CeilLog2(Len(versions))

\* -------------------------------------------------------- catalog: claims

\* C8: an accessor read made while the timestamp is older than the time to
\* live starts exactly one fetch, and a read made while a refresh that a read
\* started is still in flight starts none.
C8_OneRefreshWhileInFlight ==
    /\ lastRead.stale => lastRead.started = 1
    /\ lastRead.refreshing => lastRead.started = 0

\* C9: when a refresh fails, the sequence in memory is what it was before the
\* refresh started, the timestamp is back at its previous value, and the
\* failure is swallowed.
C9_FailedRefreshLeavesStartState ==
    settled.status = "failed" =>
        /\ map = settled.before
        /\ mtimeMs = settled.saved
        /\ settled.promise = "resolved"

\* C9 as amended: a refresh that fails changes nothing in memory, so that the
\* sequence is what it was before the refresh started unless an overlapping
\* refresh replaced it meanwhile; the timestamp is back at the value it had
\* when the refresh started, and the failure is swallowed.
C9_FailedRefreshChangesNothing ==
    /\ [][\A f \in 1..MaxFetches : FetchRejects(f) => map' = map]_vars
    /\ [](settled.status = "failed" =>
            /\ ~settled.replaced => map = settled.before
            /\ mtimeMs = settled.saved
            /\ settled.promise = "resolved")

C9_Witness ==
    /\ settled.status = "failed"
    /\ settled.by = "read"
    /\ ~settled.replaced
    /\ map = settled.before
    /\ map # <<>>
    /\ mtimeMs = settled.saved

\* C10: an accessor called while the cache is stale returns, without waiting
\* for the refresh it starts, the value of the sequence in memory at the call;
\* that refresh is still in flight when the accessor has returned.
C10_ReadDoesNotWaitForRefresh ==
    [][lastRead' # NoRead =>
          /\ map' = map
          /\ lastRead'.value = accessorValue(map, lastRead'.call)
          /\ lastRead'.stale =>
                /\ fetches' # <<>>
                /\ fetches'[Len(fetches')].status = "inflight"
                /\ fetches'[Len(fetches')].before = map]_vars

C10_Witness ==
    /\ lastRead.stale
    /\ lastRead.started = 1
    /\ lastRead.call.acc = "latest"
    /\ lastRead.value = Versions(<<v300beta>>)
    /\ fetches[Len(fetches)].by = "read"

\* C11: when a refresh completes successfully, whatever other refreshes
\* overlap it, the sequence in memory is the one parsed from the most recently
\* started successful refresh (this one's, unless a refresh started after it
\* has already succeeded) and the timestamp makes the cache fresh as of the
\* time this refresh started.
C11_NewestSuccessfulRefreshWins ==
    [][\A f \in 1..MaxFetches, doc \in Docs :
          FetchResolves(f, doc) =>
              /\ map' = IF fetches[f].overtaken THEN map ELSE setVersions(doc)
              /\ isCacheFresh(mtimeMs', fetches[f].at)]_vars

\* the sequence is strictly ascending under compareVersions
strictlyAscending(seq) ==
    \A i \in 1..Len(seq), j \in 1..Len(seq) :
        i < j => compareVersions(seq[i], seq[j]) < 0

\* no two entries have the same canonical string
noDuplicates(seq) ==
    \A i \in 1..Len(seq), j \in 1..Len(seq) : i # j => seq[i] # seq[j]

\* C12: in every state a reader can observe (after construction and before,
\* during and after any refresh) the catalog's sequence, and every list of
\* versions an accessor returns, has no two entries with the same canonical
\* string and is strictly ascending under compareVersions; the sequence is
\* always the whole result of loading one document.
C12_SequenceSortedNoDuplicates ==
    /\ noDuplicates(map)
    /\ strictlyAscending(map)
    /\ noDuplicates(lastRead.value.versions)
    /\ strictlyAscending(lastRead.value.versions)
    /\ \E doc \in Docs : map = setVersions(doc)

C12_Witness ==
    /\ lastRead.call.acc = "versions"
    /\ lastRead.value.versions = <<v100, v200nightly, v200alpha, v200>>
    /\ lastRead.refreshing
    /\ fetches[1].before = <<v100, v300beta>>

\* ------------------------------------------------- test executions: claims

\* the calls of run whose promise is pending
pendingRuns == {k \in 1..Len(runs) : runs[k].state = "pending"}

\* the outcome of the call k of run has been recorded in results
recorded(k) ==
    /\ runs[k].state = "fulfilled"
    /\ resultAt(runs[k].index) = runs[k].value

\* C13: within one bisection session at most one test execution is in flight
\* at any time, and a midpoint is chosen only after the outcome of every
\* earlier run has been recorded.
C13_RunsAreSequential ==
    /\ Cardinality(pendingRuns) <= 1
    /\ \A k \in 1..(Len(runs) - 1) : recorded(k)
    /\ pc = "loop" => \A k \in 1..Len(runs) : recorded(k)

C13_Witness ==
    /\ Len(runs) = 3
    /\ pendingRuns = {3}
    /\ pc = "child"
    /\ recorded(1)
    /\ recorded(2)

\* C14: within one bisection session no version is run more than once: every
\* index of the slice is chosen as midpoint at most once, whatever the
\* outcomes.
C14_NoVersionRunTwice ==
    /\ \A i \in 1..Len(testOrder), j \in 1..Len(testOrder) :
          i # j => testOrder[i] # testOrder[j]
    /\ \A i \in 1..Len(runs), j \in 1..Len(runs) :
          i # j => runs[i].index # runs[j].index
    /\ Len(runs) = Len(testOrder)

C14_Witness ==
    /\ pc = "done"
    /\ Len(testOrder) = 3
    /\ result \in Inconclusive

\* C15: in one bisection session fiddleFactory.create is invoked exactly
\* once, before the first test execution, and not again for a tested version.
C15_PayloadResolvedOnce ==
    /\ Len(creates) <= 1
    /\ runs # <<>> => Len(creates) = 1

\* C16: when resolving the executable or the payload fails during a
\* bisection step, no further version is run, the step is not retried and
\* bisect returns an error result with status system_error.
C16_ResolutionFailureIsSystemError ==
    (runs # <<>> /\ runs[Len(runs)].state = "rejected") =>
        /\ pc \in {"rejected", "done"}
        /\ pendingRuns = {}
        /\ pc = "done" => bisectResult = Returned("system_error", <<>>)

\* the outcome the way the child process ended calls for
outcomeOf(ev) ==
    CASE ev.event = "error" -> "system_error"
      [] ev.event = "exit" /\ ev.code = 0 -> "test_passed"
      [] ev.event = "exit" /\ ev.code = 1 -> "test_failed"
      [] OTHER -> "test_error"

\* C19: the promise of Runner.run settles exactly once per execution, with
\* the outcome the end of the process calls for: exit code 0 gives passed,
\* exit code 1 failed, any other exit (no exit code included) test_error and a
\* failure to start system_error, also when 'exit' follows 'error'.
C19_RunResolvesOnceByExit ==
    \A k \in 1..Len(runs) :
        /\ runs[k].settles <= 1
        /\ runs[k].first # NoEvent =>
              /\ runs[k].state = "fulfilled"
              /\ runs[k].settles = 1
              /\ runs[k].value = outcomeOf(runs[k].first)

C19_Witness ==
    /\ Len(runs) = 2
    /\ runs[1].first = [event |-> "exit", code |-> 1]
    /\ runs[1].value = "test_failed"
    /\ runs[2].first.event = "error"
    /\ runs[2].resolves = 2
    /\ runs[2].settles = 1
    /\ runs[2].value = "system_error"

\* ----------------------------------------------- pure functions: claims

\* the place (from 1) of a known version in the catalog's sequence
position(ver) == CHOOSE i \in 1..Len(map) : map[i] = ver

known(ver) == \E i \in 1..Len(map) : map[i] = ver

\* C17: for every catalog and all known versions a and b, inRange(a, b)
\* equals inRange(b, a), it is the contiguous slice of the ordered sequence
\* between their positions, and a and b are both elements of it.
C17_InRangeSymmetricInclusive ==
    (probe.fn = "inRange" /\ known(probe.a) /\ known(probe.b)) =>
        LET lo == Min(position(probe.a), position(probe.b))
            hi == Max(position(probe.a), position(probe.b))
        IN  /\ probe.range = inRange(map, probe.b, probe.a)
            /\ probe.range = [k \in 1..(hi - lo + 1) |-> map[lo + k - 1]]
            /\ \E k \in 1..Len(probe.range) : probe.range[k] = probe.a
            /\ \E k \in 1..Len(probe.range) : probe.range[k] = probe.b

C17_Witness ==
    /\ probe.fn = "inRange"
    /\ probe.a = v200
    /\ probe.b = v200nightly
    /\ map = <<v100, v200nightly, v200alpha, v200>>
    /\ probe.range = <<v200nightly, v200alpha, v200>>

\* (major, minor, patch) of a comes before that of b, numerically
tripleBefore(a, b) ==
    \/ a.major < b.major
    \/ a.major = b.major /\ a.minor < b.minor
    \/ a.major = b.major /\ a.minor = b.minor /\ a.patch < b.patch

sameTriple(a, b) == ~tripleBefore(a, b) /\ ~tripleBefore(b, a)

\* the first prerelease identifier is "nightly"
nightlyTagged(a) == a.prerelease # <<>> /\ Head(a.prerelease) = Str("nightly")

\* C18: compareVersions is a strict total order over versions with distinct
\* canonical strings (antisymmetric, transitive, total), consistent with the
\* numeric order of (major, minor, patch); of two versions with the same
\* triple of which exactly one has "nightly" as first prerelease identifier
\* that one is earlier, and a stable release comes after every prerelease of
\* its triple.
C18_CompareIsStrictTotalOrder ==
    probe.fn = "compareVersions" =>
        LET a  == probe.a
            b  == probe.b
            ab == probe.order[1]
            ba == probe.order[2]
            bc == probe.order[3]
            ac == probe.order[4]
            aa == probe.order[5]
        IN  /\ aa = 0
            /\ a # b => ab # 0
            /\ a = b => ab = 0
            /\ ab < 0 <=> ba > 0
            /\ (ab < 0 /\ bc < 0) => ac < 0
            /\ tripleBefore(a, b) => ab < 0
            /\ (sameTriple(a, b) /\ nightlyTagged(a) /\ ~nightlyTagged(b)) => ab < 0
            /\ (sameTriple(a, b) /\ a.prerelease # <<>> /\ b.prerelease = <<>>)
                  => ab < 0

C18_Witness ==
    /\ probe.fn = "compareVersions"
    /\ probe.a = SemVer(1, 0, 2, <<Str("nightly"), Num(10)>>)
    /\ probe.b = SemVer(1, 0, 2, <<Str("alpha"), Num(1)>>)
    /\ probe.c = SemVer(1, 0, 2, <<>>)
    /\ probe.order = <<-1, 1, -1, -1, 0>>

\* C20: after ElectronVersions.create the timestamp is the time the releases
\* in memory were obtained (the cache file's modification time when they were
\* read from the file, the time of the fetch when they were fetched), so the
\* first accessor read made when they are older than the time to live starts
\* a refresh.
C20_TimestampIsTimeDataObtained ==
    (created /\ probe.from # "none") =>
        /\ probe.stamp = probe.obtained
        /\ ( /\ lastRead # NoRead
             /\ nfetch = lastRead.started
             /\ ~isCacheFresh(probe.obtained, now) ) => lastRead.started >= 1

\* ------------------------------------------------ bisection window: claims

\* the window has been initialised (line 599-600 was reached)
windowSet ==
    \/ pc \in {"loop", "spawn", "child", "resolved", "rejected", "finish"}
    \/ pc = "done" /\ bisectResult # Rejected("InvalidFiddle")

\* C21: throughout a bisection session over a slice of n >= 2 versions,
\* 0 <= left < right <= n-1 holds and every midpoint is strictly between left
\* and right when it is chosen, so that slice[0] and slice[n-1] are never run;
\* whenever left > 0 the outcome recorded at left is passed, and whenever
\* right < n-1 the outcome recorded at right is failed.
C21_WindowInvariant ==
    (windowSet /\ Len(versions) >= 2) =>
        LET n == Len(versions)
        IN  /\ 0 <= left
            /\ left < right
            /\ right <= n - 1
            /\ pc \in {"spawn", "child", "resolved", "rejected"} =>
                  (left < mid /\ mid < right)
            /\ \A i \in 1..Len(testOrder) : testOrder[i] \notin {0, n - 1}
            /\ \A k \in 1..Len(runs) : runs[k].index \notin {0, n - 1}
            /\ resultAt(0) = undefined
            /\ resultAt(n - 1) = undefined
            /\ left > 0 => resultAt(left) = "test_passed"
            /\ right < n - 1 => resultAt(right) = "test_failed"

C21_Witness ==
    /\ pc = "child"
    /\ Len(versions) = 8
    /\ left > 0
    /\ right < Len(versions) - 1
    /\ left < mid
    /\ mid < right
    /\ Len(testOrder) = 3

====
